---- MODULE Spec2Model ----
(***************************************************************************)
(* The AMA Streamlit application: the file upload form of main()           *)
(* (src/app.py) and LangGraphUI.render_langgraph_section                   *)
(* (src/ui/langgraph_ui.py).                                               *)
(*                                                                         *)
(* Every Streamlit interaction re-runs the script once; an action of this  *)
(* module is one such run of one handler, with the widget values and the   *)
(* outcomes of the external calls (FileService, vectorize, the graph) as   *)
(* its inputs.  What a run called and showed is kept as a log, so that     *)
(* the order of calls and messages can be stated.                          *)
(*                                                                         *)
(* Spec     : submissions of the upload form.                              *)
(* SpecChat : renders of the LangGraph tab.                                *)
(* The two handlers share only the read of FileService.get_user_files.     *)
(***************************************************************************)
EXTENDS Integers, Sequences, FiniteSets, TLC

\* ------------------------------------------------------------- bounds
\* File ids handed out by the file service are 1..MaxId.
MaxId == 4
\* Most files selected in one submission of the upload form.
MaxBatch == 2
\* Most entries of langgraph_history.
MaxHist == 2

\* File names a user uploads.
Names == {"a.pdf", "b.pdf"}

VARIABLES
    files,              \* FileService: the user's stored files, in get_user_files order
    next_id,            \* FileService: the id the next stored file gets
    pre_files,          \* the stored files before the last submission
    upload,             \* the last submission: uploaded_files, replace_existing
    calls,              \* the last submission: service calls and messages, in order
    current_user,       \* a user is logged in (fixed for the session)
    api_key,            \* "OPENAI_API_KEY" in os.environ (fixed for the process)
    has_history,        \* "langgraph_history" in st.session_state
    langgraph_history,  \* st.session_state.langgraph_history
    pre_history,        \* langgraph_history before the last render
    inp,                \* the last render: widget values and outcomes of external calls
    ui,                 \* the last render: calls and messages, in order
    raised              \* the last render ended by an exception leaving the handler

uploadVars == <<files, next_id, pre_files, upload, calls>>
envVars == <<current_user, api_key>>
chatVars == <<has_history, langgraph_history, pre_history, inp, ui, raised>>
vars == <<files, next_id, pre_files, upload, calls, current_user, api_key,
          has_history, langgraph_history, pre_history, inp, ui, raised>>

Range(s) == {s[k] : k \in 1..Len(s)}

\* Sequences over S of length at most n.
SeqUpTo(S, n) == UNION {[1..k -> S] : k \in 0..n}

\* ============================================================================
\* FileService (modules/file/file_service.py), as main() uses it
\* ============================================================================

FileRecord(id, name) == [id |-> id, name |-> name]

\* get_user_files(user_id): the stored files of the user.
get_user_files(store) == store

\* delete_file(id): removes the record; ok = FALSE is a delete that fails and
\* leaves the store as it was (main() ignores the result).
delete_file(store, id, ok) ==
    IF ok THEN SelectSeq(store, LAMBDA f : f.id # id) ELSE store

\* add_file(...): stores one record under a fresh id and returns it; ok = FALSE
\* is the None result, with nothing stored.
add_file(store, id, filename, ok) ==
    IF ok THEN Append(store, FileRecord(id, filename)) ELSE store

\* ============================================================================
\* The upload form of main()
\* ============================================================================

\* One entry of the log of a submission: i is the position of the uploaded file
\* in uploaded_files that the call or message belongs to.
Call(i, op, name, id, ok, existing) ==
    [i |-> i, op |-> op, name |-> name, id |-> id, ok |-> ok, existing |-> existing]

\* any(f.name == uploaded_file.name for f in existing_files)
\* (variant: the scan never reports a collision)
duplicate_never(existing_files, name) == FALSE
duplicate(existing_files, name) ==
    \E k \in 1..Len(existing_files) : existing_files[k].name = name

\* The if / elif of the loop body: "skip" is the warning and continue, "replace"
\* the delete before the add, "add" the add alone.
\* (variant: the warning branch without its continue falls through to the add)
Branch_no_continue(dup, replace_existing) ==
    IF dup /\ replace_existing THEN "replace" ELSE "add"
Branch(dup, replace_existing) ==
    IF dup /\ ~replace_existing THEN "skip"
    ELSE IF dup /\ replace_existing THEN "replace"
    ELSE "add"

\* for existing_file in existing_files: if existing_file.name == name:
\*     delete_file(existing_file.id); break
\* The ids delete_file is called with, in order: the first match only.
\* (variant: the loop without its break deletes every match)
DeleteTargets_all(existing_files, name) ==
    LET m == SelectSeq(existing_files, LAMBDA f : f.name = name)
    IN  [k \in 1..Len(m) |-> m[k].id]
DeleteTargets(existing_files, name) ==
    LET hits == {k \in 1..Len(existing_files) : existing_files[k].name = name}
    IN  IF hits = {} THEN <<>>
        ELSE <<existing_files[CHOOSE k \in hits : \A j \in hits : k <= j].id>>

\* The delete loop run on state st = [files, next_id, calls] for uploaded file i.
RECURSIVE DeleteEach(_, _, _, _, _)
DeleteEach(st, i, name, ids, ok) ==
    IF ids = <<>> THEN st
    ELSE DeleteEach(
            [st EXCEPT !.files = delete_file(st.files, Head(ids), ok),
                       !.calls = st.calls
                                 \o <<Call(i, "delete_file", name, Head(ids), ok, <<>>),
                                      Call(i, "info", name, 0, TRUE, <<>>)>>],
            i, name, Tail(ids), ok)

\* file_model = add_file(...); st.success if file_model else st.error
\* (variant: the result of add_file is not looked at)
AddAndReport_always_success(st, i, name, ok) ==
    [files |-> add_file(st.files, st.next_id, name, ok),
     next_id |-> IF ok THEN st.next_id + 1 ELSE st.next_id,
     calls |-> st.calls \o <<Call(i, "add_file", name, 0, ok, <<>>),
                             Call(i, "success", name, 0, TRUE, <<>>)>>]
AddAndReport(st, i, name, ok) ==
    [files |-> add_file(st.files, st.next_id, name, ok),
     next_id |-> IF ok THEN st.next_id + 1 ELSE st.next_id,
     calls |-> st.calls \o <<Call(i, "add_file", name, 0, ok, <<>>),
                             Call(i, IF ok THEN "success" ELSE "error", name, 0, TRUE, <<>>)>>]

\* The body of "for uploaded_file in uploaded_files" for the file at position i.
\* (variant: a failed add puts back the files found on entry)
ProcessFile_rollback(st, i, name, replace_existing, delOk, addOk) ==
    LET existing_files == get_user_files(st.files)
        st0 == [st EXCEPT !.calls =
                   Append(st.calls, Call(i, "get_user_files", name, 0, TRUE, existing_files))]
        br == Branch(duplicate(existing_files, name), replace_existing)
    IN  IF br = "skip"
        THEN [st0 EXCEPT !.calls = Append(st0.calls, Call(i, "warning", name, 0, TRUE, <<>>))]
        ELSE LET st1 == IF br = "replace"
                        THEN DeleteEach(st0, i, name,
                                        DeleteTargets(existing_files, name), delOk)
                        ELSE st0
                 st2 == AddAndReport(st1, i, name, addOk)
             IN  IF addOk THEN st2 ELSE [st2 EXCEPT !.files = st0.files]
ProcessFile(st, i, name, replace_existing, delOk, addOk) ==
    LET existing_files == get_user_files(st.files)
        st0 == [st EXCEPT !.calls =
                   Append(st.calls, Call(i, "get_user_files", name, 0, TRUE, existing_files))]
        br == Branch(duplicate(existing_files, name), replace_existing)
    IN  IF br = "skip"
        THEN [st0 EXCEPT !.calls = Append(st0.calls, Call(i, "warning", name, 0, TRUE, <<>>))]
        ELSE LET st1 == IF br = "replace"
                        THEN DeleteEach(st0, i, name,
                                        DeleteTargets(existing_files, name), delOk)
                        ELSE st0
             IN  AddAndReport(st1, i, name, addOk)

\* for uploaded_file in uploaded_files: ... from position i on.
RECURSIVE ProcessFrom(_, _, _, _, _, _)
ProcessFrom(st, i, uploaded_files, replace_existing, delOk, addOk) ==
    IF i > Len(uploaded_files) THEN st
    ELSE ProcessFrom(
            ProcessFile(st, i, uploaded_files[i], replace_existing, delOk[i], addOk[i]),
            i + 1, uploaded_files, replace_existing, delOk, addOk)

\* if submit_button and uploaded_files: the whole loop.
SubmitResult(store, nid, uploaded_files, replace_existing, delOk, addOk) ==
    ProcessFrom([files |-> store, next_id |-> nid, calls |-> <<>>],
                1, uploaded_files, replace_existing, delOk, addOk)

\* One click on "Upload Selected Files" (the form is shown "if current_user").
UploadSubmit ==
    \E uploaded_files \in SeqUpTo(Names, MaxBatch), replace_existing \in BOOLEAN :
        /\ current_user
        /\ next_id + Len(uploaded_files) <= MaxId + 1
        /\ \E delOk \in [1..Len(uploaded_files) -> BOOLEAN],
              addOk \in [1..Len(uploaded_files) -> BOOLEAN] :
              LET r == SubmitResult(files, next_id, uploaded_files,
                                    replace_existing, delOk, addOk)
              IN  /\ files' = r.files
                  /\ next_id' = r.next_id
                  /\ calls' = r.calls
                  /\ pre_files' = files
                  /\ upload' = [uploaded_files |-> uploaded_files,
                                replace_existing |-> replace_existing]
        /\ UNCHANGED <<envVars, chatVars>>

\* ============================================================================
\* LangGraphUI.render_langgraph_section
\* ============================================================================

\* Text is a sequence of characters.  The characters of the model: letters, the
\* two characters JSON escapes in them, and those of the literal prefix "Error".
ErrorPrefix == <<"E", "r", "r", "o", "r">>

\* What a user may type into st.chat_input (never empty).
Prompts == {<<"h", "i">>, <<"\"">>}

\* What the graph may return as final_state["generation"].
Answers ==
    {<<"E", "r", "r", "o", "r">>,
     <<"E", "r", "r", "o", "r", ":", " ", "x">>,
     <<"E", "r", "r", "o", "\"", "\\">>}

\* LinkService.get_user_links(user_id): the urls of the user's links.
user_links == <<"u1">>

\* One entry of the log of a render.
Ev(op, text) == [op |-> op, text |-> text]

\* str.startswith
startswith(s, prefix) ==
    Len(s) >= Len(prefix) /\ SubSeq(s, 1, Len(prefix)) = prefix

\* ------------------------------------------------------------ json.dumps
\* json.dumps(obj, indent=4) of a list of {question, answer, events} dicts of
\* strings: the characters of the document.  With an indent, items are separated
\* by "," and a line break, keys from values by ": ", and a list or dict has its
\* items one per line, indented by four spaces per level of nesting; an empty list
\* is "[]".
Spaces(n) == [k \in 1..n |-> " "]

RECURSIVE Concat(_)
Concat(ss) == IF ss = <<>> THEN <<>> ELSE Head(ss) \o Concat(Tail(ss))

\* Items joined by sep.
RECURSIVE Join(_, _)
Join(items, sep) ==
    IF Len(items) = 0 THEN <<>>
    ELSE IF Len(items) = 1 THEN items[1]
    ELSE items[1] \o sep \o Join(Tail(items), sep)

\* The escapes of the characters of the model.
json_escape(c) ==
    IF c = "\"" THEN <<"\\", "\"">>
    ELSE IF c = "\\" THEN <<"\\", "\\">>
    ELSE IF c = "\n" THEN <<"\\", "n">>
    ELSE <<c>>

json_string(s) ==
    <<"\"">> \o Concat([k \in 1..Len(s) |-> json_escape(s[k])]) \o <<"\"">>

QuestionKey == <<"q", "u", "e", "s", "t", "i", "o", "n">>
AnswerKey == <<"a", "n", "s", "w", "e", "r">>
EventsKey == <<"e", "v", "e", "n", "t", "s">>

\* The fixed text of the document around the values.
ListOpen == <<"[", "\n">> \o Spaces(4)
ItemSep == <<",", "\n">> \o Spaces(4)
ListClose == <<"\n", "]">>
ItemQuestion == <<"{", "\n">> \o Spaces(8) \o json_string(QuestionKey) \o <<":", " ">>
ItemAnswer == <<",", "\n">> \o Spaces(8) \o json_string(AnswerKey) \o <<":", " ">>
ItemEvents == <<",", "\n">> \o Spaces(8) \o json_string(EventsKey) \o <<":", " ">>
ItemClose == <<"\n">> \o Spaces(4) \o <<"}">>
EventSep == <<",", "\n">> \o Spaces(12)

\* The "events" list of strings, nested two levels deep.
json_events(events) ==
    IF events = <<>> THEN <<"[", "]">>
    ELSE <<"[", "\n">> \o Spaces(12)
         \o Join([k \in 1..Len(events) |-> json_string(events[k])], EventSep)
         \o <<"\n">> \o Spaces(8) \o <<"]">>

\* One history entry: its keys in insertion order.
json_item(item) ==
    ItemQuestion \o json_string(item.question)
    \o ItemAnswer \o json_string(item.answer)
    \o ItemEvents \o json_events(item.events)
    \o ItemClose

json_dumps(history) ==
    IF history = <<>> THEN <<"[", "]">>
    ELSE ListOpen \o Join([k \in 1..Len(history) |-> json_item(history[k])], ItemSep)
         \o ListClose

\* ------------------------------------------------------------ the sections

\* file_options = {file.name: file for file in user_files}: the file a name selects
\* (the last one of that name).
file_options(user_files, name) ==
    LET hits == {k \in 1..Len(user_files) : user_files[k].name = name}
    IN  user_files[CHOOSE k \in hits : \A j \in hits : j <= k]

OptionNames(user_files) == {user_files[k].name : k \in 1..Len(user_files)}

\* selected_files = [file_options[name] for name in selected_file_names]
SelectedFiles(user_files, selected_file_names) ==
    LET firsts == SelectSeq([k \in 1..Len(user_files) |-> k],
                     LAMBDA k : /\ user_files[k].name \in selected_file_names
                                /\ \A j \in 1..(k - 1) :
                                       user_files[j].name # user_files[k].name)
    IN  [k \in 1..Len(firsts) |-> file_options(user_files, user_files[firsts[k]].name)]

\* selected_links = [link_options[url] for url in selected_link_urls]
SelectedLinks(selected_link_urls) ==
    SelectSeq(user_links, LAMBDA u : u \in selected_link_urls)

\* The two columns: "Select Files" and "Select Links".
SelectionSection(user_files, selected_files, selected_links) ==
    (IF user_files = <<>> THEN <<Ev("info_no_files", <<>>)>>
     ELSE <<Ev("multiselect_files", <<>>)>>
          \o (IF selected_files # <<>> THEN <<Ev("success_files_selected", <<>>)>> ELSE <<>>))
    \o (IF user_links = <<>> THEN <<Ev("info_no_links", <<>>)>>
        ELSE <<Ev("multiselect_links", <<>>)>>
             \o (IF selected_links # <<>> THEN <<Ev("success_links_selected", <<>>)>> ELSE <<>>))

\* build_index = st.button(...); if build_index: ...  The result is the log and
\* whether an exception leaves the section.  vectorize is "true", "false" or "raise".
\* (variant: vectorize called outside a try)
BuildIndexSection_uncaught(build_index, selected_files, selected_links, vectorize) ==
    [ui |-> <<Ev("button_build_index", <<>>)>>
            \o (IF ~build_index THEN <<>>
                ELSE IF selected_files = <<>> /\ selected_links = <<>>
                THEN <<Ev("warning_select_source", <<>>)>>
                ELSE <<Ev("vectorize", <<>>)>>
                     \o (IF vectorize = "true" THEN <<Ev("success_index", <<>>)>>
                         ELSE IF vectorize = "false" THEN <<Ev("error_index_failed", <<>>)>>
                         ELSE <<>>)),
     raised |-> build_index /\ ~(selected_files = <<>> /\ selected_links = <<>>)
                /\ vectorize = "raise"]
BuildIndexSection(build_index, selected_files, selected_links, vectorize) ==
    [ui |-> <<Ev("button_build_index", <<>>)>>
            \o (IF ~build_index THEN <<>>
                ELSE IF selected_files = <<>> /\ selected_links = <<>>
                THEN <<Ev("warning_select_source", <<>>)>>
                ELSE <<Ev("vectorize", <<>>)>>
                     \o (IF vectorize = "true" THEN <<Ev("success_index", <<>>)>>
                         ELSE IF vectorize = "false" THEN <<Ev("error_index_failed", <<>>)>>
                         ELSE <<Ev("error_index_exception", <<>>)>>)),
     raised |-> FALSE]

\* def display_result(item, show_question=True)
\* (variant: the prefix is not looked at)
display_result_no_error_path(item, show_question) ==
    (IF show_question THEN <<Ev("user_write", item.question)>> ELSE <<>>)
    \o <<Ev("ai_write", item.answer)>>
    \o [k \in 1..Len(item.events) |-> Ev("ai_event_write", item.events[k])]
display_result(item, show_question) ==
    (IF show_question THEN <<Ev("user_write", item.question)>> ELSE <<>>)
    \o (IF startswith(item.answer, ErrorPrefix)
        THEN <<Ev("ai_error", item.answer)>>
        ELSE <<Ev("ai_write", item.answer)>>
             \o [k \in 1..Len(item.events) |-> Ev("ai_event_write", item.events[k])])

\* for item in st.session_state.langgraph_history: display_result(item)
DisplayHistory(history) ==
    Concat([k \in 1..Len(history) |-> display_result(history[k], TRUE)])

\* result = {"question": prompt, "answer": final_state["generation"], "events": []}
Result(prompt, generation) ==
    [question |-> prompt, answer |-> generation, events |-> <<>>]

\* if prompt := st.chat_input(...): ...  q is the submission: q.trigger = "prompt"
\* with q.prompt, and q.graph the outcome of the graph calls: "ok" with
\* q.generation, or the call that raises.
\* (variant: a failed invocation is caught, invoked once more and shown as an error)
QuerySection_retry(history, q, selected_files, selected_links) ==
    IF q.trigger # "prompt" THEN [hist |-> history, ui |-> <<Ev("chat_input", <<>>)>>,
                                  raised |-> FALSE]
    ELSE LET head == <<Ev("chat_input", <<>>), Ev("user_write", q.prompt)>>
                     \o (IF selected_files = <<>> /\ selected_links = <<>>
                         THEN <<Ev("ai_warning_no_sources", <<>>)>> ELSE <<>>)
                     \o <<Ev("get_retriever_id", <<>>), Ev("get_graph", <<>>),
                          Ev("invoke", q.prompt)>>
         IN  IF q.graph = "ok"
             THEN LET result == Result(q.prompt, q.generation)
                  IN  [hist |-> Append(history, result),
                       ui |-> head \o display_result(result, FALSE),
                       raised |-> FALSE]
             ELSE [hist |-> history,
                   ui |-> head \o <<Ev("invoke", q.prompt), Ev("error_graph_exception", <<>>)>>,
                   raised |-> FALSE]
\* (variant: the result is inserted at the front of the history)
QuerySection_insert_front(history, q, selected_files, selected_links) ==
    IF q.trigger # "prompt" THEN [hist |-> history, ui |-> <<Ev("chat_input", <<>>)>>,
                                  raised |-> FALSE]
    ELSE LET head == <<Ev("chat_input", <<>>), Ev("user_write", q.prompt)>>
                     \o (IF selected_files = <<>> /\ selected_links = <<>>
                         THEN <<Ev("ai_warning_no_sources", <<>>)>> ELSE <<>>)
         IN  IF q.graph = "ok"
             THEN LET result == Result(q.prompt, q.generation)
                  IN  [hist |-> <<result>> \o history,
                       ui |-> head \o <<Ev("get_retriever_id", <<>>), Ev("get_graph", <<>>),
                                        Ev("invoke", q.prompt)>>
                              \o display_result(result, FALSE),
                       raised |-> FALSE]
             ELSE [hist |-> history,
                   ui |-> head \o <<Ev("get_retriever_id", <<>>)>>
                          \o (IF q.graph = "raise_get_retriever_id" THEN <<>>
                              ELSE <<Ev("get_graph", <<>>)>>
                                   \o (IF q.graph = "raise_get_graph" THEN <<>>
                                       ELSE <<Ev("invoke", q.prompt)>>)),
                   raised |-> TRUE]
QuerySection(history, q, selected_files, selected_links) ==
    IF q.trigger # "prompt" THEN [hist |-> history, ui |-> <<Ev("chat_input", <<>>)>>,
                                  raised |-> FALSE]
    ELSE LET head == <<Ev("chat_input", <<>>), Ev("user_write", q.prompt)>>
                     \o (IF selected_files = <<>> /\ selected_links = <<>>
                         THEN <<Ev("ai_warning_no_sources", <<>>)>> ELSE <<>>)
         IN  IF q.graph = "ok"
             THEN LET result == Result(q.prompt, q.generation)
                  IN  [hist |-> Append(history, result),
                       ui |-> head \o <<Ev("get_retriever_id", <<>>), Ev("get_graph", <<>>),
                                        Ev("invoke", q.prompt)>>
                              \o display_result(result, FALSE),
                       raised |-> FALSE]
             ELSE [hist |-> history,
                   ui |-> head \o <<Ev("get_retriever_id", <<>>)>>
                          \o (IF q.graph = "raise_get_retriever_id" THEN <<>>
                              ELSE <<Ev("get_graph", <<>>)>>
                                   \o (IF q.graph = "raise_get_graph" THEN <<>>
                                       ELSE <<Ev("invoke", q.prompt)>>)),
                   raised |-> TRUE]

\* data=json.dumps(st.session_state.langgraph_history, indent=4)
\* (variant: only the latest entry is serialised)
DownloadData_last(history) == json_dumps(<<history[Len(history)]>>)
DownloadData(history) == json_dumps(history)

\* if st.session_state.langgraph_history: download_button; if st.button("Clear
\* History"): history = []; st.rerun().
HistoryControls(history, clear) ==
    IF history = <<>> THEN [hist |-> history, ui |-> <<>>, rerun |-> FALSE]
    ELSE [hist |-> IF clear THEN <<>> ELSE history,
          ui |-> <<Ev("download_button", DownloadData(history)),
                   Ev("button_clear_history", <<>>)>>,
          rerun |-> clear]

\* One run of render_langgraph_section with widget values and outcomes q on the
\* session state (has, history): the session state and log it ends with, whether an
\* exception left it, and whether it asked for a rerun.
render_langgraph_section(user, key, user_files, has, history, q) ==
    IF ~user THEN [has |-> has, hist |-> history, ui |-> <<Ev("warning_login", <<>>)>>,
                   raised |-> FALSE, rerun |-> FALSE]
    ELSE IF ~key THEN [has |-> has, hist |-> history, ui |-> <<Ev("warning_api_key", <<>>)>>,
                       raised |-> FALSE, rerun |-> FALSE]
    ELSE
    LET history0 == IF has THEN history ELSE <<>>
        selected_files == SelectedFiles(user_files, q.selected_file_names)
        selected_links == SelectedLinks(q.selected_link_urls)
        sel == SelectionSection(user_files, selected_files, selected_links)
        build == BuildIndexSection(q.trigger = "build_index", selected_files,
                                   selected_links, q.vectorize)
    IN  IF build.raised
        THEN [has |-> TRUE, hist |-> history0, ui |-> sel \o build.ui,
              raised |-> TRUE, rerun |-> FALSE]
        ELSE
        LET shown == <<Ev("subheader_ask", <<>>)>> \o DisplayHistory(history0)
            query == QuerySection(history0, q, selected_files, selected_links)
        IN  IF query.raised
            THEN [has |-> TRUE, hist |-> query.hist,
                  ui |-> sel \o build.ui \o shown \o query.ui,
                  raised |-> TRUE, rerun |-> FALSE]
            ELSE
            LET ctl == HistoryControls(query.hist, q.trigger = "clear")
            IN  [has |-> TRUE, hist |-> ctl.hist,
                 ui |-> sel \o build.ui \o shown \o query.ui \o ctl.ui
                        \o (IF ctl.rerun THEN <<Ev("rerun", <<>>)>> ELSE <<>>),
                 raised |-> FALSE, rerun |-> ctl.rerun]

\* The widget values of a run no widget triggered.
Idle(q) == [q EXCEPT !.trigger = "none", !.prompt = <<>>, !.vectorize = "none",
                     !.graph = "none", !.generation = <<>>]

\* The widgets the last run drew: only those can trigger the next one.
Drawn(op) == \E k \in 1..Len(ui) : ui[k].op = op

\* The widget values and outcomes a run may see.  A multiselect keeps its value
\* from run to run; changing it triggers a run in which no button is clicked and no
\* prompt submitted.
RenderInputs ==
    LET sels == [selected_file_names :
                     IF Drawn("multiselect_files")
                     THEN SUBSET OptionNames(get_user_files(files))
                     ELSE {inp.selected_file_names},
                 selected_link_urls :
                     IF Drawn("multiselect_links")
                     THEN SUBSET Range(user_links)
                     ELSE {inp.selected_link_urls}]
        with(s, t, p, v, g, a) ==
            [selected_file_names |-> s.selected_file_names,
             selected_link_urls |-> s.selected_link_urls,
             trigger |-> t, prompt |-> p, vectorize |-> v, graph |-> g, generation |-> a]
    IN  {with(s, "none", <<>>, "none", "none", <<>>) : s \in sels}
        \cup (IF Drawn("button_build_index")
              THEN {with(inp, "build_index", <<>>, v, "none", <<>>) :
                        v \in {"true", "false", "raise"}}
              ELSE {})
        \cup (IF Drawn("chat_input") /\ Len(langgraph_history) < MaxHist
              THEN {with(inp, "prompt", x[1], "none", "ok", x[2]) : x \in Prompts \X Answers}
                   \cup {with(inp, "prompt", x[1], "none", x[2], <<>>) :
                        x \in Prompts
                              \X {"raise_get_retriever_id", "raise_get_graph", "raise_invoke"}}
              ELSE {})
        \cup (IF Drawn("button_clear_history")
              THEN {with(inp, "clear", <<>>, "none", "none", <<>>)}
              ELSE {})

\* One run of the LangGraph tab; st.rerun() starts the next run at once, with no
\* widget triggering it.
Render ==
    \E q \in RenderInputs :
        LET r1 == render_langgraph_section(current_user, api_key, get_user_files(files),
                                           has_history, langgraph_history, q)
            r == IF ~r1.rerun THEN r1
                 ELSE LET r2 == render_langgraph_section(current_user, api_key,
                                    get_user_files(files), r1.has, r1.hist, Idle(q))
                      IN  [r2 EXCEPT !.ui = r1.ui \o r2.ui]
        IN  /\ has_history' = r.has
            /\ langgraph_history' = r.hist
            /\ pre_history' = langgraph_history
            /\ inp' = q
            /\ ui' = r.ui
            /\ raised' = r.raised
            /\ UNCHANGED <<uploadVars, envVars>>

\* ============================================================================
\* Specifications
\* ============================================================================

\* The stored files a session may start from (the file service is persistent).
InitialStores ==
    {<<>>, <<FileRecord(1, "a.pdf")>>, <<FileRecord(1, "a.pdf"), FileRecord(2, "b.pdf")>>}

Init ==
    /\ files \in InitialStores
    /\ next_id = Len(files) + 1
    /\ pre_files = files
    /\ upload = [uploaded_files |-> <<>>, replace_existing |-> FALSE]
    /\ calls = <<>>
    /\ current_user \in BOOLEAN
    /\ api_key \in BOOLEAN
    /\ has_history = FALSE
    /\ langgraph_history = <<>>
    /\ pre_history = <<>>
    /\ inp = [selected_file_names |-> {}, selected_link_urls |-> {}, trigger |-> "none",
              prompt |-> <<>>, vectorize |-> "none", graph |-> "none", generation |-> <<>>]
    /\ ui = <<>>
    /\ raised = FALSE

\* Submissions of the upload form.
Next == UploadSubmit

Spec == Init /\ [][Next]_vars

\* Renders of the LangGraph tab.
NextChat == Render

SpecChat == Init /\ [][NextChat]_vars

\* ============================================================================
\* The upload form: what the log of a submission says
\* ============================================================================

\* Positions in calls of the entries of uploaded file i with operation op.
At(i, op) == {k \in 1..Len(calls) : calls[k].i = i /\ calls[k].op = op}

Uploaded == 1..Len(upload.uploaded_files)

\* The existing files as read for uploaded file i, and the store it left behind.
Existing(i) == calls[CHOOSE k \in At(i, "get_user_files") : TRUE].existing
After(i) == IF i < Len(upload.uploaded_files) THEN Existing(i + 1) ELSE files

\* Positions in Existing(i) of the files named like uploaded file i.
Colliding(i) ==
    {k \in 1..Len(Existing(i)) : Existing(i)[k].name = upload.uploaded_files[i]}
Collides(i) == Colliding(i) # {}
FirstColliding(i) == Existing(i)[CHOOSE k \in Colliding(i) : \A j \in Colliding(i) : k <= j]

Ids(store) == {store[k].id : k \in 1..Len(store)}
DistinctNames(store) ==
    \A j, k \in 1..Len(store) : store[j].name = store[k].name => j = k

\* C1 as stated: with a name collision and replace_existing, delete_file is called on
\* every existing file of that name, and add_file only after all of those deletes.
C1_DeleteEveryCollidingThenAdd ==
    \A i \in Uploaded :
        (Collides(i) /\ upload.replace_existing) =>
            /\ \A k \in Colliding(i) :
                   \E d \in At(i, "delete_file") : calls[d].id = Existing(i)[k].id
            /\ At(i, "add_file") # {}
            /\ \A d \in At(i, "delete_file"), a \in At(i, "add_file") : d < a

\* C1 as amended: with a name collision and replace_existing, delete_file is called
\* exactly once, on the first existing file of that name in get_user_files order, and
\* add_file is called exactly once, after that delete.
C1_DeleteFirstCollidingThenAdd ==
    \A i \in Uploaded :
        (Collides(i) /\ upload.replace_existing) =>
            /\ Cardinality(At(i, "delete_file")) = 1
            /\ \A d \in At(i, "delete_file") : calls[d].id = FirstColliding(i).id
            /\ Cardinality(At(i, "add_file")) = 1
            /\ \A d \in At(i, "delete_file"), a \in At(i, "add_file") : d < a

\* A replacing upload whose name two existing files carry: one delete, then the add.
C1_Witness ==
    \E i \in Uploaded :
        /\ upload.replace_existing
        /\ Cardinality(Colliding(i)) = 2
        /\ At(i, "delete_file") # {}
        /\ At(i, "add_file") # {}

\* C2: with a name collision and replace_existing False, neither delete_file nor
\* add_file is called for that file, one warning is shown, and every later file of
\* the batch is still processed.
C2_CollisionWithoutReplaceSkips ==
    \A i \in Uploaded :
        (Collides(i) /\ ~upload.replace_existing) =>
            /\ At(i, "delete_file") = {}
            /\ At(i, "add_file") = {}
            /\ Cardinality(At(i, "warning")) = 1
            /\ After(i) = Existing(i)
            /\ \A j \in Uploaded : j > i => At(j, "get_user_files") # {}

\* A skipped file followed by a file of the same batch that was added.
C2_Witness ==
    \E i, j \in Uploaded :
        /\ i < j
        /\ Collides(i) /\ ~upload.replace_existing
        /\ At(i, "warning") # {}
        /\ \E a \in At(j, "add_file") : calls[a].ok

\* C3 as stated: without a name collision the upload always calls add_file and shows
\* the success message.
C3_NoCollisionAddsAndSucceeds ==
    \A i \in Uploaded :
        ~Collides(i) => (At(i, "add_file") # {} /\ At(i, "success") # {})

\* C3 as amended: without a name collision (among the existing files as re-read for
\* that file) add_file is called exactly once and nothing is deleted or skipped, for
\* either value of replace_existing; the success message is shown when add_file
\* returns a record and the failure message when it returns none.
C3_NoCollisionAddsAndReports ==
    \A i \in Uploaded :
        ~Collides(i) =>
            /\ Cardinality(At(i, "add_file")) = 1
            /\ At(i, "delete_file") = {} /\ At(i, "warning") = {}
            /\ \A a \in At(i, "add_file") :
                   /\ calls[a].ok => (At(i, "success") # {} /\ At(i, "error") = {})
                   /\ ~calls[a].ok => (At(i, "error") # {} /\ At(i, "success") = {})

\* A file without collision whose add_file returned no record.
C3_Witness ==
    \E i \in Uploaded :
        /\ ~Collides(i)
        /\ \E a \in At(i, "add_file") : ~calls[a].ok
        /\ At(i, "error") # {}

\* The replacing uploads whose delete succeeded and whose add failed.
DeletedThenAddFailed(i) ==
    /\ Collides(i) /\ upload.replace_existing
    /\ \E d \in At(i, "delete_file") : calls[d].ok
    /\ \E a \in At(i, "add_file") : ~calls[a].ok

DeletesSucceeded == \A k \in 1..Len(calls) : calls[k].op = "delete_file" => calls[k].ok

\* C10: if the stored files have pairwise distinct names before a submission and its
\* deletes succeed, they have pairwise distinct names after it.
C10_DistinctNamesPreserved ==
    (DistinctNames(pre_files) /\ DeletesSucceeded) => DistinctNames(files)

\* A batch of two files of one name, the second replacing the first.
C10_Witness ==
    /\ Len(upload.uploaded_files) = 2
    /\ upload.uploaded_files[1] = upload.uploaded_files[2]
    /\ upload.replace_existing
    /\ DistinctNames(pre_files) /\ DeletesSucceeded
    /\ ~Collides(1)
    /\ \E a \in At(1, "add_file") : calls[a].ok
    /\ \E d \in At(2, "delete_file") : calls[d].ok
    /\ \E a \in At(2, "add_file") : calls[a].ok

\* ============================================================================
\* The LangGraph tab: what the log of a render says
\* ============================================================================

Count(op) == Cardinality({k \in 1..Len(ui) : ui[k].op = op})

IsPrefix(s, t) == Len(s) <= Len(t) /\ \A k \in 1..Len(s) : s[k] = t[k]

\* The history the last render displayed and offered for download: the one it left
\* in the session, or, when it cleared it, the one it found.
ShownHistory == IF inp.trigger = "clear" THEN pre_history ELSE langgraph_history

PromptSubmitted == inp.trigger = "prompt"
GraphReturned == inp.trigger = "prompt" /\ inp.graph = "ok"
GraphRaised == inp.trigger = "prompt" /\ inp.graph # "ok"

\* C4 as stated: history is append-only until a Clear History click: a render
\* without a clear keeps the entries and their order and adds at most one at the
\* end, exactly one, {question: prompt, answer: generation, events: []}, when a
\* prompt was submitted; a clear resets it to the empty sequence.
C4_AppendOnePerPrompt ==
    /\ inp.trigger = "clear" => langgraph_history = <<>>
    /\ inp.trigger # "clear" =>
           /\ IsPrefix(pre_history, langgraph_history)
           /\ Len(langgraph_history) <= Len(pre_history) + 1
    /\ PromptSubmitted =>
           /\ Len(langgraph_history) = Len(pre_history) + 1
           /\ langgraph_history[Len(langgraph_history)].question = inp.prompt
           /\ langgraph_history[Len(langgraph_history)].answer = inp.generation
           /\ langgraph_history[Len(langgraph_history)].events = <<>>

\* C4 as amended: the same, with exactly one entry added when a prompt was submitted
\* and the graph invocation returned, and none when the invocation raised.
C4_AppendOnePerAnsweredPrompt ==
    /\ inp.trigger = "clear" => langgraph_history = <<>>
    /\ inp.trigger # "clear" =>
           /\ IsPrefix(pre_history, langgraph_history)
           /\ Len(langgraph_history) <= Len(pre_history) + 1
    /\ GraphReturned =>
           langgraph_history =
               Append(pre_history,
                      [question |-> inp.prompt, answer |-> inp.generation, events |-> <<>>])
    /\ ~GraphReturned /\ inp.trigger # "clear" => langgraph_history = pre_history

\* A second entry appended behind a first one.
C4_Witness ==
    /\ GraphReturned
    /\ Len(pre_history) = 1
    /\ Len(langgraph_history) = 2
    /\ langgraph_history[2].question # langgraph_history[1].question

\* C5 as stated: when the graph invocation raises, the render shows the exception
\* message once, does not invoke the graph again, and is not aborted.
C5_GraphFailureHandled ==
    GraphRaised =>
        /\ ~raised
        /\ Count("error_graph_exception") = 1
        /\ Count("invoke") <= 1

\* C5 as amended: when the graph invocation raises, render_langgraph_section does
\* not catch the exception: it leaves the handler at the call that raised (the render
\* is aborted there: no result is displayed, nothing is appended to the history, the
\* Download and Clear buttons are not drawn), and no call is made again.
C5_GraphFailurePropagates ==
    GraphRaised =>
        /\ raised
        /\ Count("error_graph_exception") = 0
        /\ Count("get_retriever_id") = 1 /\ Count("get_graph") <= 1 /\ Count("invoke") <= 1
        /\ ui[Len(ui)].op = (IF inp.graph = "raise_get_retriever_id" THEN "get_retriever_id"
                             ELSE IF inp.graph = "raise_get_graph" THEN "get_graph"
                             ELSE "invoke")
        /\ langgraph_history = pre_history
        /\ Count("download_button") = 0 /\ Count("button_clear_history") = 0

\* app.invoke raised with an entry already in the history.
C5_Witness ==
    /\ GraphRaised
    /\ inp.graph = "raise_invoke"
    /\ Count("invoke") = 1
    /\ Len(pre_history) = 1

\* The text begins with the literal prefix "Error".
IsErrorText(t) == Len(t) >= 5 /\ \A k \in 1..5 : t[k] = ErrorPrefix[k]

\* The answers display_result wrote, in order, through either path.
AnswerEvents == SelectSeq(ui, LAMBDA e : e.op \in {"ai_error", "ai_write"})

\* C6: display_result shows every history entry and every new result; an answer
\* beginning with "Error" only through the error path, with no write of the answer or
\* of its events, and any other answer never through the error path.
C6_ErrorPrefixTakesErrorPath ==
    /\ \A k \in 1..Len(ui) :
           /\ ui[k].op = "ai_error" => IsErrorText(ui[k].text)
           /\ ui[k].op = "ai_write" => ~IsErrorText(ui[k].text)
           /\ ui[k].op = "ai_event_write" =>
                  (k > 1 /\ ui[k - 1].op \in {"ai_write", "ai_event_write"})
    /\ Len(AnswerEvents) = Len(ShownHistory)
    /\ \A k \in 1..Len(AnswerEvents) : AnswerEvents[k].text = ShownHistory[k].answer

\* A render that showed an "Error" answer and an answer that only begins like one.
C6_Witness ==
    /\ \E k \in 1..Len(ui) : ui[k].op = "ai_error" /\ Len(ui[k].text) > 5
    /\ \E k \in 1..Len(ui) : ui[k].op = "ai_write" /\ IsPrefix(<<"E", "r", "r", "o">>, ui[k].text)

BuildClicked == inp.trigger = "build_index"
SomethingSelected == inp.selected_file_names # {} \/ inp.selected_link_urls # {}

\* C7: when Build Index is clicked with a file or link selected and vectorize raises,
\* the exception is caught and shown as an error banner, the render continues to the
\* query section and the history is unchanged; with nothing selected vectorize is
\* never called.
C7_VectorizeFailureCaught ==
    /\ (BuildClicked /\ SomethingSelected /\ inp.vectorize = "raise") =>
           /\ Count("vectorize") = 1
           /\ Count("error_index_exception") = 1
           /\ ~raised
           /\ \E j, k \in 1..Len(ui) :
                  /\ j < k
                  /\ ui[j].op = "error_index_exception"
                  /\ ui[k].op = "subheader_ask"
           /\ Count("chat_input") = 1
           /\ langgraph_history = pre_history
    /\ (BuildClicked /\ ~SomethingSelected) =>
           (Count("vectorize") = 0 /\ Count("warning_select_source") = 1)

\* vectorize raised on a selected file with an entry in the history.
C7_Witness ==
    /\ BuildClicked /\ inp.vectorize = "raise"
    /\ inp.selected_file_names # {}
    /\ Count("vectorize") = 1
    /\ Len(langgraph_history) >= 1

\* ------------------------------------------------------------ json.loads
\* A decoded JSON value: a string, a list of values, or a dict as its members in
\* document order.
JStr(s) == [tag |-> "str", val |-> s]
JList(items) == [tag |-> "list", val |-> items]
JDict(members) == [tag |-> "dict", val |-> members]
JFail == [tag |-> "fail", val |-> <<>>]

CharAt(t, p) == IF p <= Len(t) THEN t[p] ELSE "EOF"

json_unescape(c) == IF c = "n" THEN "\n" ELSE c

RECURSIVE SkipSpace(_, _)
SkipSpace(t, p) == IF CharAt(t, p) \in {" ", "\n"} THEN SkipSpace(t, p + 1) ELSE p

\* The string whose opening quote precedes position p.
RECURSIVE ParseChars(_, _, _)
ParseChars(t, p, acc) ==
    LET c == CharAt(t, p)
    IN  IF c = "EOF" THEN [v |-> JFail, p |-> p]
        ELSE IF c = "\"" THEN [v |-> JStr(acc), p |-> p + 1]
        ELSE IF c = "\\" THEN ParseChars(t, p + 2, Append(acc, json_unescape(CharAt(t, p + 1))))
        ELSE ParseChars(t, p + 1, Append(acc, c))

RECURSIVE ParseValue(_, _)
RECURSIVE ParseItems(_, _, _)
RECURSIVE ParseMembers(_, _, _)

ParseValue(t, p0) ==
    LET p == SkipSpace(t, p0)
        c == CharAt(t, p)
        q == SkipSpace(t, p + 1)
    IN  IF c = "\"" THEN ParseChars(t, p + 1, <<>>)
        ELSE IF c = "[" THEN (IF CharAt(t, q) = "]" THEN [v |-> JList(<<>>), p |-> q + 1]
                              ELSE ParseItems(t, q, <<>>))
        ELSE IF c = "{" THEN (IF CharAt(t, q) = "}" THEN [v |-> JDict(<<>>), p |-> q + 1]
                              ELSE ParseMembers(t, q, <<>>))
        ELSE [v |-> JFail, p |-> p]

ParseItems(t, p, acc) ==
    LET r == ParseValue(t, p)
        q == SkipSpace(t, r.p)
        c == CharAt(t, q)
    IN  IF r.v.tag = "fail" THEN r
        ELSE IF c = "," THEN ParseItems(t, q + 1, Append(acc, r.v))
        ELSE IF c = "]" THEN [v |-> JList(Append(acc, r.v)), p |-> q + 1]
        ELSE [v |-> JFail, p |-> q]

ParseMembers(t, p, acc) ==
    LET key == ParseValue(t, p)
        colon == SkipSpace(t, key.p)
        r == ParseValue(t, colon + 1)
        q == SkipSpace(t, r.p)
        c == CharAt(t, q)
    IN  IF key.v.tag # "str" \/ CharAt(t, colon) # ":" THEN [v |-> JFail, p |-> colon]
        ELSE IF r.v.tag = "fail" THEN r
        ELSE IF c = "," THEN ParseMembers(t, q + 1,
                                 Append(acc, [key |-> key.v.val, value |-> r.v]))
        ELSE IF c = "}" THEN [v |-> JDict(Append(acc, [key |-> key.v.val, value |-> r.v])),
                              p |-> q + 1]
        ELSE [v |-> JFail, p |-> q]

\* json.loads: the value of the document, which must be all of the text.
json_loads(t) ==
    LET r == ParseValue(t, 1)
    IN  IF r.v.tag # "fail" /\ SkipSpace(t, r.p) = Len(t) + 1 THEN r.v ELSE JFail

\* A history list as a decoded JSON value: per entry exactly the members question,
\* answer and events.
AsJson(history) ==
    JList([k \in 1..Len(history) |->
              JDict(<<[key |-> QuestionKey, value |-> JStr(history[k].question)],
                      [key |-> AnswerKey, value |-> JStr(history[k].answer)],
                      [key |-> EventsKey,
                       value |-> JList([j \in 1..Len(history[k].events) |->
                                           JStr(history[k].events[j])])]>>)])

\* C8: the data handed to the Download History button decodes, as JSON, to the
\* in-session history: the same entries in the same order, each with exactly the
\* fields question, answer and events.
C8_DownloadRoundTrips ==
    \A k \in 1..Len(ui) :
        ui[k].op = "download_button" => json_loads(ui[k].text) = AsJson(ShownHistory)

\* A download of two entries, one of which needs escapes.
C8_Witness ==
    /\ Count("download_button") = 1
    /\ Len(ShownHistory) = 2
    /\ ShownHistory[1] # ShownHistory[2]
    /\ \E k \in 1..2 : \E j \in 1..Len(ShownHistory[k].answer) :
           ShownHistory[k].answer[j] \in {"\"", "\\"}
    /\ \E k \in 1..2 : ShownHistory[k].question = <<"\"">>

====
